---- MODULE Spec2Model ----
(***************************************************************************)
(* A model of the GoTgBot quiz bot: the leaderboard service in its two    *)
(* implementations (internal/service/leaderboard.go), the quiz session    *)
(* handlers of the Telegram bot (internal/telegram/handler.go) and the    *)
(* question shuffle (internal/service, ShuffleQuestions).                 *)
(*                                                                         *)
(* A leaderboard entry is modelled by the fields the code reads: UserID,  *)
(* Score, Total and Percentage.  Username, FirstName and Date are copied  *)
(* into the entry and never read by any decision, so they are left out.   *)
(***************************************************************************)
EXTENDS Integers, Sequences, FiniteSets, TLC

(***************************************************************************)
(* Bounds of the model.                                                    *)
(***************************************************************************)
\* Telegram users 1..NumUsers.
NumUsers == 2
\* Concurrent callers of the remote-backed (Gist) store.
NumProcs == 2
\* Questions in the catalogue that NewBot loaded.
NumQuestions == 2
\* Users 1..NumPrivateChats talk to the bot in a private chat; all users can
\* use the group chat.
NumPrivateChats == 1
\* The largest catalogue handed to ShuffleQuestions; the smallest is empty.
MaxCatalogue == 3

Users == 1..NumUsers
Procs == 1..NumProcs

\* Chats: the private chat of user u has Chat.ID = u; a group chat has a
\* negative Chat.ID and every user can press its buttons.
PrivateChats == {u \in Users : u <= NumPrivateChats}
GroupChats == {-1}
Chats == PrivateChats \cup GroupChats
Members(chatID) == IF chatID \in PrivateChats THEN {chatID} ELSE Users

\* (score, total) pairs offered to AddEntry when calls run one after another;
\* total is never 0, the catalogue is never empty.  Their percentages are 20,
\* 80, 10, 20, 30 and 70: between two of them the percentage and the score
\* compare in every way two submissions can (equal percentage with a lower or
\* higher score, higher percentage with a lower score, ...).
SeqInputs == {<<1, 5>>, <<4, 5>>, <<1, 10>>, <<2, 10>>, <<3, 10>>, <<7, 10>>}
\* (score, total) pairs offered to AddEntry when calls may overlap.
ConcInputs == {<<3, 10>>, <<7, 10>>}
\* (score, total) pairs offered to AddEntry between queries: 20% with score 1,
\* 20% with score 2 and 70%; two users can hold equal entries.
QueryInputs == {<<1, 5>>, <<2, 10>>, <<7, 10>>}
\* (score, total) pairs offered to AddEntry on a crowded leaderboard.
LargeInputs == {<<1, 5>>, <<7, 10>>}
\* The limits offered to GetTop: negative, zero, below, at and above the size
\* of the collection; 10 is the limit handleLeaderboard passes.
Limits == {-1, 0, 1, 2, 10}

VARIABLES
    store,      \* "memory" | "gist": which LeaderboardService NewLeaderboardService built
    entries,    \* MemoryLeaderboardService.leaderboard.Entries
    doc,        \* the entries array held in the Gist file leaderboard.json
    pc,         \* per caller of the leaderboard service: "idle", or where its call stands
    call,       \* per caller in flight: <<the arguments of its call>>, else <<>>
    local,      \* per caller in flight: the locals of its call, else <<>>
    best,       \* history: per user, <<key>> of the best submission acknowledged so far
    last,       \* history: the AddEntry call the latest step completed, if any
    res,        \* history: the GetTop or GetUserPosition call the latest step completed, if any
    quizQuestions,  \* Bot.quizQuestions, the catalogue
    quizSessions,   \* Bot.quizSessions: a map from Chat.ID to *QuizSession
    crashed,    \* the process died of a panic in a handler
    answered,   \* history: per chat, answers processed since its session started
    ev,         \* history: the update the bot handled last
    data,       \* history: the fields of the callback data of the answer handled last
    log         \* history: per chat, the answers its latest session processed

lbVars == <<store, entries, doc, pc, call, local, best, last, res>>
botVars == <<quizQuestions, quizSessions, crashed, answered, ev>>
obsVars == <<data, log>>
vars == <<store, entries, doc, pc, call, local, best, last, res,
          quizQuestions, quizSessions, crashed, answered, ev, data, log>>

(***************************************************************************)
(* LeaderboardEntry and the best-wins rule.                                *)
(***************************************************************************)
\* percentage := (score * 100) / total, on non-negative Go ints.
Percentage(score, total) == (score * 100) \div total

NewEntry(userID, score, total) ==
    [userID |-> userID, score |-> score, total |-> total,
     percentage |-> Percentage(score, total)]

\* Mutant: the tie-break on score is dropped.
BetterNoTieBreak(percentage, score, entry) == percentage > entry.percentage

\* Mutant: score decides first, percentage only breaks ties.
BetterScoreFirst(percentage, score, entry) ==
    \/ score > entry.score
    \/ (score = entry.score /\ percentage > entry.percentage)

\* The condition under which AddEntry replaces the stored entry.
Better(percentage, score, entry) ==
    \/ percentage > entry.percentage
    \/ (percentage = entry.percentage /\ score > entry.score)

\* The index of the first entry of es with this userID, 0 when there is none:
\* where `for i, entry := range Entries { if entry.UserID == userID` stops.
IndexOf(es, userID) ==
    IF \E i \in 1..Len(es) : es[i].userID = userID
    THEN CHOOSE i \in 1..Len(es) :
            /\ es[i].userID = userID
            /\ \A j \in 1..(i - 1) : es[j].userID # userID
    ELSE 0

\* Mutant: the new entry is always appended, the log is never searched.
MergeAlwaysAppend(es, userID, score, total) ==
    Append(es, NewEntry(userID, score, total))

\* The collection after the search-and-replace loop and the append of AddEntry.
Merge(es, userID, score, total) ==
    LET i == IndexOf(es, userID)
        new == NewEntry(userID, score, total)
    IN  IF i # 0
        THEN IF Better(new.percentage, score, es[i])
             THEN [es EXCEPT ![i] = new]
             ELSE es
        ELSE Append(es, new)

\* What MemoryLeaderboardService.AddEntry returns: true on both paths.
MemAddEntryRet(es, userID, score, total) ==
    LET i == IndexOf(es, userID)
    IN  IF i # 0 THEN TRUE ELSE TRUE

\* What GistLeaderboardService.AddEntry returns once saveToGist succeeded.
GistAddEntryRet(es, userID, score, total) == TRUE

(***************************************************************************)
(* History variables.                                                      *)
(***************************************************************************)
Key(e) == [percentage |-> e.percentage, score |-> e.score]

\* x is better than y in the ordering of the specification.
KeyBetter(x, y) ==
    \/ x.percentage > y.percentage
    \/ (x.percentage = y.percentage /\ x.score > y.score)

\* The stored entry of userID in es, as a sequence of length 0 or 1.
Stored(es, userID) ==
    IF IndexOf(es, userID) = 0 THEN <<>> ELSE <<es[IndexOf(es, userID)]>>

\* best after a submission (userID, score, total) was acknowledged.
Record(b, userID, score, total) ==
    LET k == Key(NewEntry(userID, score, total))
    IN  IF b[userID] = <<>> \/ KeyBetter(k, b[userID][1])
        THEN [b EXCEPT ![userID] = <<k>>]
        ELSE b

NoOp == [op |-> "none", proc |-> 0, userID |-> 0, score |-> 0, total |-> 0,
         prev |-> <<>>, ret |-> FALSE, failed |-> FALSE]

Done(p, userID, score, total, prev, ret, failed) ==
    [op |-> "AddEntry", proc |-> p, userID |-> userID, score |-> score,
     total |-> total, prev |-> prev, ret |-> ret, failed |-> failed]

\* A completed query: arg is the limit of GetTop or the userID of
\* GetUserPosition, top the slice GetTop returned, (position, entry) what
\* GetUserPosition returned (entry as a sequence of length 0 or 1), failed
\* whether a fetch of the call failed.  A call that panicked has returned
\* nothing: it is recorded with its argument and the process is crashed.
NoRes == [op |-> "none", arg |-> 0, top |-> <<>>, position |-> 0,
          entry |-> <<>>, failed |-> FALSE]

TopRes(limit, t) ==
    [op |-> "GetTop", arg |-> limit, top |-> t.top, position |-> 0,
     entry |-> <<>>, failed |-> t.failed]

PositionRes(userID, r) ==
    [op |-> "GetUserPosition", arg |-> userID, top |-> <<>>,
     position |-> r.position, entry |-> r.entry, failed |-> r.failed]

(***************************************************************************)
(* Initial state: NewLeaderboardService picks one implementation, once.    *)
(***************************************************************************)
LbInit ==
    /\ store \in {"memory", "gist"}
    /\ entries = <<>>
    /\ doc = <<>>
    /\ pc = [p \in Procs |-> "idle"]
    /\ call = [p \in Procs |-> <<>>]
    /\ local = [p \in Procs |-> <<>>]
    /\ best = [u \in Users |-> <<>>]
    /\ last = NoOp
    /\ res = NoRes

(***************************************************************************)
(* MemoryLeaderboardService.AddEntry: one critical section under mu.Lock.  *)
(***************************************************************************)
MemAddEntry(userID, score, total) ==
    /\ store = "memory"
    /\ entries' = Merge(entries, userID, score, total)
    /\ best' = IF MemAddEntryRet(entries, userID, score, total)
               THEN Record(best, userID, score, total) ELSE best
    /\ last' = Done(0, userID, score, total, Stored(entries, userID),
                    MemAddEntryRet(entries, userID, score, total), FALSE)
    /\ UNCHANGED <<store, doc, pc, call, local>>

(***************************************************************************)
(* GistLeaderboardService.AddEntry: loadFromGist, merge, saveToGist.  The  *)
(* GET and the PATCH are two separate round trips; nothing is held between *)
(* them.                                                                   *)
(***************************************************************************)
\* loadFromGist succeeds: the caller holds a private copy of the document.
GistLoad(p, userID, score, total) ==
    /\ store = "gist"
    /\ pc[p] = "idle"
    /\ pc' = [pc EXCEPT ![p] = "loaded"]
    /\ call' = [call EXCEPT ![p] = <<[userID |-> userID, score |-> score, total |-> total]>>]
    /\ local' = [local EXCEPT ![p] = doc]
    /\ last' = NoOp
    /\ UNCHANGED <<store, entries, doc, best>>

\* Mutant: the error of loadFromGist is ignored; the call goes on with an empty
\* leaderboard and writes it.
GistLoadFailIgnored(p, userID, score, total) ==
    /\ store = "gist"
    /\ pc[p] = "idle"
    /\ doc' = <<NewEntry(userID, score, total)>>
    /\ last' = Done(p, userID, score, total, Stored(doc, userID), TRUE, TRUE)
    /\ UNCHANGED <<store, entries, pc, call, local, best>>

\* loadFromGist fails (transport error, status other than 200, bad JSON):
\* AddEntry returns false without attempting a write.
GistLoadFail(p, userID, score, total) ==
    /\ store = "gist"
    /\ pc[p] = "idle"
    /\ last' = Done(p, userID, score, total, Stored(doc, userID), FALSE, TRUE)
    /\ UNCHANGED <<store, entries, doc, pc, call, local, best>>

\* Mutant: the write merges the submission into the document as it is at the
\* time of the write, as a compare-and-swap retry would.
GistSaveMergesCurrent(p) ==
    /\ store = "gist"
    /\ pc[p] = "loaded"
    /\ LET c == call[p][1]
       IN  /\ doc' = Merge(doc, c.userID, c.score, c.total)
           /\ best' = Record(best, c.userID, c.score, c.total)
           /\ last' = Done(p, c.userID, c.score, c.total,
                           Stored(doc, c.userID), TRUE, FALSE)
    /\ pc' = [pc EXCEPT ![p] = "idle"]
    /\ call' = [call EXCEPT ![p] = <<>>]
    /\ local' = [local EXCEPT ![p] = <<>>]
    /\ UNCHANGED <<store, entries>>

\* The merge on the private copy, then saveToGist succeeds: the PATCH replaces
\* the file content wholesale.
GistSave(p) ==
    /\ store = "gist"
    /\ pc[p] = "loaded"
    /\ LET c == call[p][1]
           ret == GistAddEntryRet(local[p], c.userID, c.score, c.total)
       IN  /\ doc' = Merge(local[p], c.userID, c.score, c.total)
           /\ best' = IF ret THEN Record(best, c.userID, c.score, c.total) ELSE best
           /\ last' = Done(p, c.userID, c.score, c.total,
                           Stored(local[p], c.userID), ret, FALSE)
    /\ pc' = [pc EXCEPT ![p] = "idle"]
    /\ call' = [call EXCEPT ![p] = <<>>]
    /\ local' = [local EXCEPT ![p] = <<>>]
    /\ UNCHANGED <<store, entries>>

\* saveToGist fails: AddEntry returns false and the document keeps its content.
GistSaveFail(p) ==
    /\ store = "gist"
    /\ pc[p] = "loaded"
    /\ LET c == call[p][1]
       IN  last' = Done(p, c.userID, c.score, c.total,
                        Stored(local[p], c.userID), FALSE, TRUE)
    /\ pc' = [pc EXCEPT ![p] = "idle"]
    /\ call' = [call EXCEPT ![p] = <<>>]
    /\ local' = [local EXCEPT ![p] = <<>>]
    /\ UNCHANGED <<store, entries, doc, best>>

AllIdle == \A p \in Procs : pc[p] = "idle"

\* GistLoad then GistSave (or a failure of either) with no other caller in
\* between: one whole AddEntry call of a single-threaded client.
GistAddEntry(userID, score, total) ==
    /\ store = "gist"
    /\ AllIdle
    /\ \E net \in {"ok", "load failed", "save failed"} :
          IF net = "ok"
          THEN LET ret == GistAddEntryRet(doc, userID, score, total)
               IN  /\ doc' = Merge(doc, userID, score, total)
                   /\ best' = IF ret THEN Record(best, userID, score, total) ELSE best
                   /\ last' = Done(0, userID, score, total, Stored(doc, userID),
                                   ret, FALSE)
          ELSE /\ doc' = doc
               /\ best' = best
               /\ last' = Done(0, userID, score, total, Stored(doc, userID),
                               FALSE, TRUE)
    /\ UNCHANGED <<store, entries, pc, call, local>>

\* b.leaderboardService.AddEntry, on whichever implementation was built.
AddEntry(userID, score, total) ==
    \/ MemAddEntry(userID, score, total)
    \/ GistAddEntry(userID, score, total)

(***************************************************************************)
(* GetTop and GetUserPosition.                                             *)
(***************************************************************************)
\* The less function both GetTop implementations hand to sort.Slice: x is to
\* come before y.
Less(x, y) ==
    IF x.percentage = y.percentage
    THEN x.score > y.score
    ELSE x.percentage > y.percentage

\* All the orders of the sequence s.
Orders(s) == {[i \in 1..Len(s) |-> s[f[i]]] : f \in Permutations(1..Len(s))}

\* The orders sort.Slice can leave a copy of es in: those in which no entry
\* stands behind one it is Less than.  sort.Slice is not stable: entries of
\* which neither is Less than the other end in any order.  Enumerated around
\* a pivot: the entries Less than it, those tied with it, those it is Less
\* than.
RECURSIVE Sorted(_)
Sorted(es) ==
    IF Len(es) <= 1
    THEN {es}
    ELSE LET pivot == es[(Len(es) + 1) \div 2]
             before == SelectSeq(es, LAMBDA e : Less(e, pivot))
             ties == SelectSeq(es, LAMBDA e : ~Less(e, pivot) /\ ~Less(pivot, e))
             after == SelectSeq(es, LAMBDA e : Less(pivot, e))
         IN  {b \o t \o a :
                b \in Sorted(before), t \in Orders(ties), a \in Sorted(after)}

\* if limit > len(sorted) { limit = len(sorted) }
ClampLimit(limit, n) == IF limit > n THEN n ELSE limit

\* sorted[:limit] panics (slice bounds out of range) unless 0 <= limit <= len.
SlicePanics(sorted, limit) == limit < 0 \/ limit > Len(sorted)

\* The part of GetTop after the collection was read: what it returns for one
\* order the sort produced.
TopOf(sorted, limit) ==
    LET n == ClampLimit(limit, Len(sorted))
    IN  [top |-> IF SlicePanics(sorted, n) THEN <<>> ELSE SubSeq(sorted, 1, n),
         failed |-> FALSE,
         panicked |-> SlicePanics(sorted, n)]

\* The outcomes of MemoryLeaderboardService.GetTop(limit) on the collection es.
MemGetTopRet(es, limit) == {TopOf(sorted, limit) : sorted \in Sorted(es)}

\* The outcomes of GistLeaderboardService.GetTop(limit) on the document d:
\* nil when loadFromGist fails, else as above on the fetched entries.
GistGetTopRet(d, limit) ==
    {[top |-> <<>>, failed |-> TRUE, panicked |-> FALSE]}
        \cup {TopOf(sorted, limit) : sorted \in Sorted(d)}

\* Mutant: the position is the 0-based index of the entry.
FindZeroBased(top, userID) ==
    IF IndexOf(top, userID) # 0
    THEN [position |-> IndexOf(top, userID) - 1,
          entry |-> <<top[IndexOf(top, userID)]>>]
    ELSE [position |-> -1, entry |-> <<>>]

\* for i, entry := range top { if entry.UserID == userID { return i + 1, &entry } }
\* return -1, nil
Find(top, userID) ==
    IF IndexOf(top, userID) # 0
    THEN [position |-> IndexOf(top, userID), entry |-> <<top[IndexOf(top, userID)]>>]
    ELSE [position |-> -1, entry |-> <<>>]

\* The outcomes of MemoryLeaderboardService.GetUserPosition(userID) when
\* len(ms.leaderboard.Entries) was read as limit and GetTop then saw es.
MemGetUserPositionRet(es, limit, userID) ==
    {[position |-> Find(t.top, userID).position,
      entry |-> Find(t.top, userID).entry,
      failed |-> FALSE] : t \in MemGetTopRet(es, limit)}

\* The limit of the inner GetTop call of GistLeaderboardService.GetUserPosition.
AllEntriesLimit == 1000

\* The outcomes of GistLeaderboardService.GetUserPosition(userID) on the
\* document d: gs.GetTop(len(gs.GetTop(1000))), two fetches, then the search.
GistGetUserPositionRet(d, userID) ==
    UNION {{[position |-> Find(outer.top, userID).position,
             entry |-> Find(outer.top, userID).entry,
             failed |-> inner.failed \/ outer.failed] :
                outer \in GistGetTopRet(d, Len(inner.top))} :
           inner \in GistGetTopRet(d, AllEntriesLimit)}

\* MemoryLeaderboardService.GetTop(limit), under mu.RLock.
MemGetTop(limit) ==
    /\ store = "memory"
    /\ ~crashed
    /\ \E t \in MemGetTopRet(entries, limit) :
          /\ res' = TopRes(limit, t)
          /\ crashed' = t.panicked
    /\ last' = NoOp
    /\ UNCHANGED <<store, entries, doc, pc, call, local, best>>

\* GistLeaderboardService.GetTop(limit): one fetch, no write.
GistGetTop(limit) ==
    /\ store = "gist"
    /\ ~crashed
    /\ \E t \in GistGetTopRet(doc, limit) :
          /\ res' = TopRes(limit, t)
          /\ crashed' = t.panicked
    /\ last' = NoOp
    /\ UNCHANGED <<store, entries, doc, pc, call, local, best>>

\* MemoryLeaderboardService.GetUserPosition(userID) with no AddEntry running
\* between its read of len(Entries) and its GetTop call.
MemGetUserPosition(userID) ==
    /\ store = "memory"
    /\ ~crashed
    /\ \E r \in MemGetUserPositionRet(entries, Len(entries), userID) :
          res' = PositionRes(userID, r)
    /\ last' = NoOp
    /\ UNCHANGED <<store, entries, doc, pc, call, local, best>>

\* GistLeaderboardService.GetUserPosition(userID) with no writer in between
\* its two fetches.
GistGetUserPosition(userID) ==
    /\ store = "gist"
    /\ ~crashed
    /\ \E r \in GistGetUserPositionRet(doc, userID) :
          res' = PositionRes(userID, r)
    /\ last' = NoOp
    /\ UNCHANGED <<store, entries, doc, pc, call, local, best>>

(***************************************************************************)
(* MemoryLeaderboardService called from several goroutines: AddEntry and   *)
(* GetUserPosition step by step.  pc is "waiting" for a caller blocked in  *)
(* mu.Lock, "locked" for the one that holds mu and has run the search loop *)
(* of AddEntry, "sized" for a caller of GetUserPosition that has read      *)
(* len(Entries) and has not yet entered GetTop.                            *)
(***************************************************************************)
\* Mutant: mu.Lock and mu.RLock let every caller in.
MuFreeAlways == TRUE

\* mu.Lock and mu.RLock return: no goroutine holds the write lock.  (Readers
\* hold mu only within a step.)
MuFree == \A q \in Procs : pc[q] # "locked"

\* A goroutine calls AddEntry and reaches mu.Lock.
MemAddEntryCall(p, userID, score, total) ==
    /\ store = "memory"
    /\ pc[p] = "idle"
    /\ pc' = [pc EXCEPT ![p] = "waiting"]
    /\ call' = [call EXCEPT ![p] = <<[userID |-> userID, score |-> score, total |-> total]>>]
    /\ last' = NoOp
    /\ UNCHANGED <<store, entries, doc, local, best>>

\* mu.Lock returns; the loop over Entries runs up to the entry of the user,
\* or to the end.
MemAddEntryLock(p) ==
    /\ store = "memory"
    /\ pc[p] = "waiting"
    /\ MuFree
    /\ pc' = [pc EXCEPT ![p] = "locked"]
    /\ local' = [local EXCEPT ![p] = <<IndexOf(entries, call[p][1].userID)>>]
    /\ last' = NoOp
    /\ UNCHANGED <<store, entries, doc, call, best>>

\* The write of AddEntry at the index i the loop stopped at (0: it found no
\* entry of the user): replace if better, or append.
WriteAt(es, i, userID, score, total) ==
    LET new == NewEntry(userID, score, total)
    IN  IF i # 0
        THEN IF Better(new.percentage, score, es[i])
             THEN [es EXCEPT ![i] = new]
             ELSE es
        ELSE Append(es, new)

\* The replace or the append, return true, and the deferred mu.Unlock.
MemAddEntryWrite(p) ==
    /\ store = "memory"
    /\ pc[p] = "locked"
    /\ LET c == call[p][1]
           i == local[p][1]
       IN  /\ entries' = WriteAt(entries, i, c.userID, c.score, c.total)
           /\ best' = Record(best, c.userID, c.score, c.total)
           /\ last' = Done(p, c.userID, c.score, c.total,
                           Stored(entries, c.userID), TRUE, FALSE)
    /\ pc' = [pc EXCEPT ![p] = "idle"]
    /\ call' = [call EXCEPT ![p] = <<>>]
    /\ local' = [local EXCEPT ![p] = <<>>]
    /\ UNCHANGED <<store, doc>>

\* GetUserPosition evaluates len(ms.leaderboard.Entries), the argument of its
\* GetTop call, without holding mu.  present (history): the user has an entry
\* at this moment.
MemGetUserPositionLen(p, userID) ==
    /\ store = "memory"
    /\ pc[p] = "idle"
    /\ pc' = [pc EXCEPT ![p] = "sized"]
    /\ call' = [call EXCEPT ![p] =
                  <<[userID |-> userID, limit |-> Len(entries),
                     present |-> Stored(entries, userID) # <<>>]>>]
    /\ last' = NoOp
    /\ UNCHANGED <<store, entries, doc, local, best>>

\* GetTop(limit) under mu.RLock, then the search of the user in what it
\* returned.
MemGetUserPositionTop(p) ==
    /\ store = "memory"
    /\ pc[p] = "sized"
    /\ MuFree
    /\ \E r \in MemGetUserPositionRet(entries, call[p][1].limit, call[p][1].userID) :
          res' = PositionRes(call[p][1].userID, r)
    /\ pc' = [pc EXCEPT ![p] = "idle"]
    /\ call' = [call EXCEPT ![p] = <<>>]
    /\ last' = NoOp
    /\ UNCHANGED <<store, entries, doc, local, best>>

(***************************************************************************)
(* The catalogue and ShuffleQuestions.                                     *)
(***************************************************************************)
\* A catalogue of NumQuestions questions; the first two are those of
\* DefaultQuizQuestions (ID 1 with Correct 1, ID 2 with Correct 0).  Options
\* is always the same pair of labels and is left out.
Catalogue == [i \in 1..NumQuestions |-> [ID |-> i, Correct |-> i % 2]]

\* Mutant: the index to swap with is drawn from the whole slice, r.Intn(n).
ShuffleChoicesAnyIndex(n) == [2..n -> 1..n]

\* The values r.Intn(i + 1) may return, for each i the loop visits; position i
\* of the code (0-based) is position i + 1 here.
ShuffleChoices(n) == {js \in [2..n -> 1..n] : \A i \in 2..n : js[i] <= i}

Swap(q, i, j) == [q EXCEPT ![i] = q[j], ![j] = q[i]]

\* for i := len(shuffled) - 1; i > 0; i-- { swap(i, r.Intn(i + 1)) }
RECURSIVE ShuffleLoop(_, _, _)
ShuffleLoop(shuffled, i, js) ==
    IF i < 2 THEN shuffled
    ELSE ShuffleLoop(Swap(shuffled, i, js[i]), i - 1, js)

\* ShuffleQuestions works on a copy and returns it.
ShuffleQuestions(questions, js) == ShuffleLoop(questions, Len(questions), js)

\* Mutant: no copy is made, the loop swaps the elements of the argument.
ShuffleArgumentInPlace(questions, js) ==
    ShuffleLoop(questions, Len(questions), js)

\* The slice handed to ShuffleQuestions, after the call: the loop writes to
\* shuffled, which make and copy set up as an array of its own.
ShuffleArgument(questions, js) == questions

\* A catalogue of n questions, numbered as ParseQuizQuestions numbers them.
CatalogueOf(n) == [i \in 1..n |-> [ID |-> i, Correct |-> i % 2]]

(***************************************************************************)
(* Bot: the handlers of quiz updates.  Start runs them one at a time, in   *)
(* the loop over the updates channel.                                      *)
(***************************************************************************)
NoEvent == [op |-> "none", chatID |-> 0, had |-> FALSE, before |-> <<>>]

Event(op, chatID) ==
    [op |-> op, chatID |-> chatID,
     had |-> chatID \in DOMAIN quizSessions,
     before |-> IF chatID \in DOMAIN quizSessions
                THEN <<[CurrentQuestion |-> quizSessions[chatID].CurrentQuestion,
                        Score |-> quizSessions[chatID].Score]>>
                ELSE <<>>]

BotInit ==
    /\ quizQuestions = Catalogue
    /\ quizSessions = <<>>
    /\ crashed = FALSE
    /\ answered = [c \in Chats |-> 0]
    /\ ev = NoEvent
    /\ data = <<>>
    /\ log = [c \in Chats |-> <<>>]

Init == LbInit /\ BotInit

\* Mutant: a restart keeps the score of the session it replaces.
NewSessionKeepsScore(chatID, shuffledQuestions) ==
    [UserID |-> chatID, CurrentQuestion |-> 0,
     Score |-> IF chatID \in DOMAIN quizSessions
               THEN quizSessions[chatID].Score ELSE 0,
     Questions |-> shuffledQuestions]

\* The QuizSession startQuiz builds.
NewSession(chatID, shuffledQuestions) ==
    [UserID |-> chatID, CurrentQuestion |-> 0, Score |-> 0,
     Questions |-> shuffledQuestions]

\* startQuiz(chatID): the /quiz command or the start_quiz button.
StartQuiz(chatID) ==
    /\ ~crashed
    /\ \E js \in ShuffleChoices(Len(quizQuestions)) :
          /\ quizSessions' =
                (chatID :> NewSession(chatID, ShuffleQuestions(quizQuestions, js)))
                    @@ quizSessions
          /\ quizQuestions' = ShuffleArgument(quizQuestions, js)
    /\ answered' = [answered EXCEPT ![chatID] = 0]
    /\ ev' = Event("start", chatID)
    /\ last' = NoOp
    /\ res' = NoRes
    /\ UNCHANGED <<store, entries, doc, pc, call, local, best, crashed>>

\* The fields of callback data after the "quiz" prefix, split at "_".
QFields == {"-1", "0", "1", "2", "x"}
AFields == {"0", "1", "x"}
AnswerData ==
    {<<q, a>> : q \in QFields, a \in AFields} \cup {<<"0">>, <<"0", "1", "0">>}

\* strconv.Atoi with its error dropped: 0 for a field that is no number.
Atoi(f) ==
    CASE f = "-1" -> -1
      [] f = "0" -> 0
      [] f = "1" -> 1
      [] f = "2" -> 2
      [] OTHER -> 0

\* quizSessions without the session of chatID: delete(b.quizSessions, chatID).
Delete(sessions, chatID) ==
    [c \in (DOMAIN sessions) \ {chatID} |-> sessions[c]]

\* b.leaderboardService.GetUserPosition(userID) called from a handler, on the
\* implementation in use: the handlers run one at a time, nothing writes
\* during the call.
GetUserPositionRet(st, es, d, userID) ==
    IF st = "memory"
    THEN MemGetUserPositionRet(es, Len(es), userID)
    ELSE GistGetUserPositionRet(d, userID)

\* Mutant: an aborted quiz is submitted like a completed one.
FinishSubmitsAlways(exited) == TRUE

\* Mutant: a completed quiz is not submitted either.
FinishSubmitsNever(exited) == FALSE

\* finishQuiz submits the result unless the quiz was exited.
FinishSubmits(exited) == ~exited

\* finishQuiz(chatID, exited, user) on the session map as it is at the call.
\* After AddEntry returned isNewBest, finishQuiz asks for the position of the
\* user and, unless it is -1, adds the new-record line with it to the message.
FinishQuiz(sessions, chatID, exited, userID) ==
    IF chatID \notin DOMAIN sessions
    THEN /\ quizSessions' = sessions
         /\ last' = NoOp
         /\ res' = NoRes
         /\ UNCHANGED <<store, entries, doc, pc, call, local, best>>
    ELSE /\ quizSessions' = Delete(sessions, chatID)
         /\ IF FinishSubmits(exited)
            THEN /\ AddEntry(userID, sessions[chatID].Score,
                             Len(sessions[chatID].Questions))
                 /\ IF last'.ret
                    THEN \E r \in GetUserPositionRet(store, entries', doc', userID) :
                            res' = PositionRes(userID, r)
                    ELSE res' = NoRes
            ELSE /\ last' = NoOp
                 /\ res' = NoRes
                 /\ UNCHANGED <<store, entries, doc, pc, call, local, best>>

\* Mutant: the index advances only on a correct answer.
AnswerAdvanceOnCorrect(session, questionIndex, answerIndex) ==
    LET isCorrect == answerIndex = session.Questions[questionIndex + 1].Correct
    IN  [session EXCEPT
            !.Score = IF isCorrect THEN @ + 1 ELSE @,
            !.CurrentQuestion = IF isCorrect THEN @ + 1 ELSE @]

\* The session after handleQuizAnswer scored the answer and advanced the index.
Answer(session, questionIndex, answerIndex) ==
    LET question == session.Questions[questionIndex + 1]
        isCorrect == answerIndex = question.Correct
    IN  [session EXCEPT
            !.Score = IF isCorrect THEN @ + 1 ELSE @,
            !.CurrentQuestion = @ + 1]

\* Mutant: the session is indexed before its presence is checked.
AnswerPanicsUnchecked(chatID, questionIndex) ==
    \/ chatID \notin DOMAIN quizSessions
    \/ questionIndex < 0
    \/ questionIndex >= Len(quizSessions[chatID].Questions)

\* session.Questions[questionIndex] panics: index out of range.
AnswerPanics(chatID, questionIndex) ==
    /\ chatID \in DOMAIN quizSessions
    /\ \/ questionIndex < 0
       \/ questionIndex >= Len(quizSessions[chatID].Questions)

\* handleQuizAnswer(chatID, data, user).
HandleQuizAnswer(chatID, parts, userID) ==
    /\ ~crashed
    /\ ev' = Event("answer", chatID)
    /\ UNCHANGED quizQuestions
    /\ IF Len(parts) + 1 # 3
       THEN /\ last' = NoOp
            /\ res' = NoRes
            /\ UNCHANGED <<store, entries, doc, pc, call, local, best,
                           quizSessions, crashed, answered>>
       ELSE LET questionIndex == Atoi(parts[1])
                answerIndex == Atoi(parts[2])
            IN  IF AnswerPanics(chatID, questionIndex)
                THEN /\ crashed' = TRUE
                     /\ last' = NoOp
                     /\ res' = NoRes
                     /\ UNCHANGED <<store, entries, doc, pc, call, local, best,
                                    quizSessions, answered>>
                ELSE IF chatID \notin DOMAIN quizSessions
                THEN /\ last' = NoOp
                     /\ res' = NoRes
                     /\ UNCHANGED <<store, entries, doc, pc, call, local, best,
                                    quizSessions, crashed, answered>>
                ELSE LET session == Answer(quizSessions[chatID], questionIndex,
                                           answerIndex)
                         sessions == [quizSessions EXCEPT ![chatID] = session]
                     IN  /\ crashed' = crashed
                         /\ IF session.CurrentQuestion < Len(session.Questions)
                            THEN /\ quizSessions' = sessions
                                 /\ answered' = [answered EXCEPT ![chatID] = @ + 1]
                                 /\ last' = NoOp
                                 /\ res' = NoRes
                                 /\ UNCHANGED <<store, entries, doc, pc, call,
                                                local, best>>
                            ELSE /\ FinishQuiz(sessions, chatID, FALSE, userID)
                                 /\ answered' = [answered EXCEPT ![chatID] = 0]

\* The exit_quiz button: finishQuiz(chatID, true, user).
ExitQuiz(chatID, userID) ==
    /\ ~crashed
    /\ ev' = Event("exit", chatID)
    /\ FinishQuiz(quizSessions, chatID, TRUE, userID)
    /\ answered' = [answered EXCEPT ![chatID] = 0]
    /\ UNCHANGED <<quizQuestions, crashed>>

(***************************************************************************)
(* Spec: the bot handling updates, one after another.                      *)
(***************************************************************************)
BotStartQuiz == \E c \in Chats : StartQuiz(c) /\ UNCHANGED obsVars
BotAnswer ==
    \E c \in Chats, u \in Users, parts \in AnswerData :
        u \in Members(c) /\ HandleQuizAnswer(c, parts, u) /\ UNCHANGED obsVars
BotExit ==
    \E c \in Chats, u \in Users :
        u \in Members(c) /\ ExitQuiz(c, u) /\ UNCHANGED obsVars

Next ==
    \/ BotStartQuiz
    \/ BotAnswer
    \/ BotExit

Spec == Init /\ [][Next]_vars

(***************************************************************************)
(* SpecSeq: AddEntry calls executed one after another, on either store.    *)
(***************************************************************************)
SeqMemAddEntry == \E u \in Users, st \in SeqInputs :
        MemAddEntry(u, st[1], st[2]) /\ UNCHANGED <<botVars, res, obsVars>>
SeqGistLoad ==
    \E u \in Users, st \in SeqInputs : 
        AllIdle /\ GistLoad(1, u, st[1], st[2]) /\ UNCHANGED <<botVars, res, obsVars>>
SeqGistLoadFail ==
    \E u \in Users, st \in SeqInputs : 
        AllIdle /\ GistLoadFail(1, u, st[1], st[2]) /\ UNCHANGED <<botVars, res, obsVars>>
SeqGistSave == GistSave(1) /\ UNCHANGED <<botVars, res, obsVars>>
SeqGistSaveFail == GistSaveFail(1) /\ UNCHANGED <<botVars, res, obsVars>>

NextSeq ==
    \/ SeqMemAddEntry
    \/ SeqGistLoad
    \/ SeqGistLoadFail
    \/ SeqGistSave
    \/ SeqGistSaveFail

SpecSeq == Init /\ [][NextSeq]_vars

(***************************************************************************)
(* SpecConc: AddEntry calls that may overlap.  The memory store serialises *)
(* them under its lock; the Gist store interleaves their round trips.      *)
(***************************************************************************)
ConcMemAddEntry == \E u \in Users, st \in ConcInputs :
        MemAddEntry(u, st[1], st[2]) /\ UNCHANGED <<botVars, res, obsVars>>
ConcGistLoad ==
    \E p \in Procs, u \in Users, st \in ConcInputs :
        GistLoad(p, u, st[1], st[2]) /\ UNCHANGED <<botVars, res, obsVars>>
ConcGistLoadFail ==
    \E p \in Procs, u \in Users, st \in ConcInputs :
        GistLoadFail(p, u, st[1], st[2]) /\ UNCHANGED <<botVars, res, obsVars>>
ConcGistSave == \E p \in Procs : GistSave(p) /\ UNCHANGED <<botVars, res, obsVars>>
ConcGistSaveFail == \E p \in Procs : GistSaveFail(p) /\ UNCHANGED <<botVars, res, obsVars>>

NextConc ==
    \/ ConcMemAddEntry
    \/ ConcGistLoad
    \/ ConcGistLoadFail
    \/ ConcGistSave
    \/ ConcGistSaveFail

SpecConc == Init /\ [][NextConc]_vars

(***************************************************************************)
(* SpecQuery: AddEntry, GetTop and GetUserPosition calls of one client,    *)
(* executed one after another, on either store.                            *)
(***************************************************************************)
QueryMemAddEntry ==
    \E u \in Users, st \in QueryInputs :
        /\ ~crashed
        /\ MemAddEntry(u, st[1], st[2])
        /\ res' = NoRes
        /\ UNCHANGED <<botVars, obsVars>>
QueryGistLoad ==
    \E u \in Users, st \in QueryInputs :
        /\ ~crashed /\ AllIdle
        /\ GistLoad(1, u, st[1], st[2])
        /\ res' = NoRes
        /\ UNCHANGED <<botVars, obsVars>>
QueryGistLoadFail ==
    \E u \in Users, st \in QueryInputs :
        /\ ~crashed /\ AllIdle
        /\ GistLoadFail(1, u, st[1], st[2])
        /\ res' = NoRes
        /\ UNCHANGED <<botVars, obsVars>>
QueryGistSave ==
    ~crashed /\ GistSave(1) /\ res' = NoRes /\ UNCHANGED <<botVars, obsVars>>
QueryGistSaveFail ==
    ~crashed /\ GistSaveFail(1) /\ res' = NoRes /\ UNCHANGED <<botVars, obsVars>>
QueryMemGetTop ==
    \E limit \in Limits :
        /\ MemGetTop(limit)
        /\ UNCHANGED <<quizQuestions, quizSessions, answered, ev, obsVars>>
QueryGistGetTop ==
    \E limit \in Limits :
        /\ AllIdle
        /\ GistGetTop(limit)
        /\ UNCHANGED <<quizQuestions, quizSessions, answered, ev, obsVars>>
QueryMemGetUserPosition ==
    \E u \in Users :
        MemGetUserPosition(u) /\ UNCHANGED <<botVars, obsVars>>
QueryGistGetUserPosition ==
    \E u \in Users :
        AllIdle /\ GistGetUserPosition(u) /\ UNCHANGED <<botVars, obsVars>>

NextQuery ==
    \/ QueryMemAddEntry
    \/ QueryGistLoad
    \/ QueryGistLoadFail
    \/ QueryGistSave
    \/ QueryGistSaveFail
    \/ QueryMemGetTop
    \/ QueryGistGetTop
    \/ QueryMemGetUserPosition
    \/ QueryGistGetUserPosition

SpecQuery == Init /\ [][NextQuery]_vars

(***************************************************************************)
(* SpecLarge: AddEntry and GetUserPosition calls of one client, executed   *)
(* one after another, on a leaderboard on which as many other users as the *)
(* inner GetTop call of GistLeaderboardService.GetUserPosition asks for    *)
(* have an entry already, each with all answers right in a catalogue of    *)
(* another size.                                                           *)
(***************************************************************************)
OtherEntries ==
    [i \in 1..AllEntriesLimit |-> NewEntry(NumUsers + i, i, i)]

InitLarge ==
    /\ store \in {"memory", "gist"}
    /\ entries = IF store = "memory" THEN OtherEntries ELSE <<>>
    /\ doc = IF store = "gist" THEN OtherEntries ELSE <<>>
    /\ pc = [p \in Procs |-> "idle"]
    /\ call = [p \in Procs |-> <<>>]
    /\ local = [p \in Procs |-> <<>>]
    /\ best = [u \in Users |-> <<>>]
    /\ last = NoOp
    /\ res = NoRes
    /\ BotInit

LargeAddEntry ==
    \E u \in Users, st \in LargeInputs :
        /\ ~crashed
        /\ AddEntry(u, st[1], st[2])
        /\ res' = NoRes
        /\ UNCHANGED <<botVars, obsVars>>
LargeMemGetUserPosition ==
    \E u \in Users :
        MemGetUserPosition(u) /\ UNCHANGED <<botVars, obsVars>>
LargeGistGetUserPosition ==
    \E u \in Users :
        AllIdle /\ GistGetUserPosition(u) /\ UNCHANGED <<botVars, obsVars>>

NextLarge ==
    \/ LargeAddEntry
    \/ LargeMemGetUserPosition
    \/ LargeGistGetUserPosition

SpecLarge == InitLarge /\ [][NextLarge]_vars

(***************************************************************************)
(* SpecMem: goroutines calling AddEntry and GetUserPosition of the memory  *)
(* store at the same time.                                                 *)
(***************************************************************************)
InitMem == Init /\ store = "memory"

MemCallAddEntry ==
    \E p \in Procs, u \in Users, st \in ConcInputs :
        /\ MemAddEntryCall(p, u, st[1], st[2])
        /\ res' = NoRes
        /\ UNCHANGED <<botVars, obsVars>>
MemLockAddEntry ==
    \E p \in Procs :
        MemAddEntryLock(p) /\ res' = NoRes /\ UNCHANGED <<botVars, obsVars>>
MemWriteAddEntry ==
    \E p \in Procs :
        MemAddEntryWrite(p) /\ res' = NoRes /\ UNCHANGED <<botVars, obsVars>>
MemLenGetUserPosition ==
    \E p \in Procs, u \in Users :
        /\ MemGetUserPositionLen(p, u)
        /\ res' = NoRes
        /\ UNCHANGED <<botVars, obsVars>>
MemTopGetUserPosition ==
    \E p \in Procs :
        MemGetUserPositionTop(p) /\ UNCHANGED <<botVars, obsVars>>

NextMem ==
    \/ MemCallAddEntry
    \/ MemLockAddEntry
    \/ MemWriteAddEntry
    \/ MemLenGetUserPosition
    \/ MemTopGetUserPosition

SpecMem == InitMem /\ [][NextMem]_vars

(***************************************************************************)
(* SpecShuffle: sessions started, in any chat and any number of times, on  *)
(* a catalogue of 0 to MaxCatalogue questions.  ParseQuizQuestions never   *)
(* hands the bot an empty catalogue; the empty one stands for a direct     *)
(* caller of the exported ShuffleQuestions.                                *)
(***************************************************************************)
InitShuffle ==
    /\ LbInit
    /\ quizQuestions \in {CatalogueOf(n) : n \in 0..MaxCatalogue}
    /\ quizSessions = <<>>
    /\ crashed = FALSE
    /\ answered = [c \in Chats |-> 0]
    /\ ev = NoEvent
    /\ data = <<>>
    /\ log = [c \in Chats |-> <<>>]

ShuffleStartQuiz == \E c \in Chats : StartQuiz(c) /\ UNCHANGED obsVars

NextShuffle == ShuffleStartQuiz

SpecShuffle == InitShuffle /\ [][NextShuffle]_vars

(***************************************************************************)
(* SpecDialog: the updates of one chat, the group chat, handled one after *)
(* another, with the callback data of each answer and the answers each    *)
(* session processed kept as history.                                     *)
(***************************************************************************)
\* Callback data as the buttons of sendQuestion carry it, "quiz_<question>_
\* <option>", and as a client can send it: a question index out of range, a
\* field that is not a number, an empty field, a field too few or too many.
DialogData ==
    {<<"0", "0">>, <<"0", "1">>, <<"1", "0">>, <<"1", "1">>,
     <<"-1", "0">>, <<"2", "1">>,
     <<"x", "1">>, <<"1", "x">>,
     <<"", "1">>, <<"0">>,
     <<"0", "1", "0">>}

\* The handler advanced or finished the session of the chat.
Processed(chatID) ==
    /\ chatID \in DOMAIN quizSessions
    /\ \/ chatID \notin DOMAIN quizSessions'
       \/ quizSessions'[chatID].CurrentQuestion
              # quizSessions[chatID].CurrentQuestion

\* The score of the session of the chat after the step: that of the session,
\* or the one finishQuiz submitted.
ScoreAfter(chatID) ==
    IF chatID \in DOMAIN quizSessions'
    THEN quizSessions'[chatID].Score
    ELSE last'.score

\* The field is the decimal form of a number.
IsNumber(f) == f \in {"-1", "0", "1", "2"}

\* The data has the answer prefix but not two numeric fields after it.
Malformed(parts) ==
    \/ Len(parts) # 2
    \/ ~IsNumber(parts[1])
    \/ ~IsNumber(parts[2])

\* The option the data names is the correct one of the question the session
\* of the chat is showing, the one at CurrentQuestion.
RightOption(chatID, parts) ==
    LET session == quizSessions[chatID]
    IN  Atoi(parts[2]) = session.Questions[session.CurrentQuestion + 1].Correct

\* The data is that of the button of the correct option of the question the
\* session of the chat is showing.
RightButton(chatID, parts) ==
    /\ ~Malformed(parts)
    /\ Atoi(parts[1]) = quizSessions[chatID].CurrentQuestion
    /\ RightOption(chatID, parts)

\* log after an answer.  Of each answer a session processed: q, the question
\* index it carried; point, whether the score rose; right, whether it named
\* the correct option of the question shown; button, whether it was the
\* button of that option.
Logged(chatID, parts) ==
    IF Processed(chatID)
    THEN [log EXCEPT ![chatID] =
            Append(@, [q |-> Atoi(parts[1]),
                       point |-> ScoreAfter(chatID)
                                    > quizSessions[chatID].Score,
                       right |-> RightOption(chatID, parts),
                       button |-> RightButton(chatID, parts)])]
    ELSE log

DialogStartQuiz ==
    \E c \in GroupChats :
        /\ StartQuiz(c)
        /\ data' = <<>>
        /\ log' = [log EXCEPT ![c] = <<>>]
DialogAnswer ==
    \E c \in GroupChats, u \in Users, parts \in DialogData :
        /\ u \in Members(c)
        /\ HandleQuizAnswer(c, parts, u)
        /\ data' = parts
        /\ log' = Logged(c, parts)
DialogExit ==
    \E c \in GroupChats, u \in Users :
        /\ u \in Members(c)
        /\ ExitQuiz(c, u)
        /\ data' = <<>>
        /\ log' = log

NextDialog ==
    \/ DialogStartQuiz
    \/ DialogAnswer
    \/ DialogExit

SpecDialog == Init /\ [][NextDialog]_vars

\* The collection of the store in use.
Board == IF store = "memory" THEN entries ELSE doc

(***************************************************************************)
(* Claims about AddEntry, calls executed one after another (SpecSeq).      *)
(***************************************************************************)
\* The entry the last completed AddEntry call submitted.
LastNew == NewEntry(last.userID, last.score, last.total)

\* The last completed AddEntry call found an entry of its user.
LastFound == last.op = "AddEntry" /\ last.prev # <<>>

\* C1: after any sequence of AddEntry calls run one after another, the entry
\* stored for each user is the best one submitted by the calls that completed
\* without a storage failure (those are the calls that returned true): a user
\* has an entry iff such a call was made for it, and the entry's (percentage,
\* score) is the maximum, percentage first and score breaking ties.
C1_StoredIsBestSubmitted ==
    \A u \in Users :
        /\ (best[u] = <<>>) <=> (Stored(Board, u) = <<>>)
        /\ best[u] # <<>> => Key(Stored(Board, u)[1]) = best[u][1]

\* C1 witness: on the Gist store, a stored entry was replaced by a submission
\* of equal percentage and higher score (1/5 by 2/10), and it is the best.
C1_Witness ==
    /\ store = "gist"
    /\ LastFound
    /\ last.prev[1].percentage = 20 /\ last.prev[1].score = 1
    /\ last.score = 2 /\ last.total = 10
    /\ Stored(doc, last.userID) = <<LastNew>>
    /\ best[last.userID] = <<[percentage |-> 20, score |-> 2]>>

\* C3 (as claimed): an AddEntry call for a user that has a stored entry, with a
\* submission not strictly better than it, leaves the stored entry unchanged
\* and returns false.
C3_NonImprovingReturnsFalse ==
    (LastFound /\ ~KeyBetter(Key(LastNew), Key(last.prev[1])))
        => (Stored(Board, last.userID) = last.prev /\ last.ret = FALSE)

\* C4 (as claimed): AddEntry stores the submission and returns true whenever it
\* is strictly better than the stored entry or the user has no stored entry,
\* and a submission of lower percentage never replaces the stored entry.
C4_Original ==
    last.op = "AddEntry" =>
        /\ (last.prev = <<>> \/ KeyBetter(Key(LastNew), Key(last.prev[1])))
              => (Stored(Board, last.userID) = <<LastNew>> /\ last.ret = TRUE)
        /\ (last.prev # <<>> /\ LastNew.percentage < last.prev[1].percentage)
              => Stored(Board, last.userID) = last.prev

\* C4 (amended): the same, for the calls that complete without a storage
\* failure; a call whose load or save failed returns false and stores nothing.
C4_BetterOverwrites ==
    /\ (last.op = "AddEntry" /\ ~last.failed) =>
        /\ (last.prev = <<>> \/ KeyBetter(Key(LastNew), Key(last.prev[1])))
              => (Stored(Board, last.userID) = <<LastNew>> /\ last.ret = TRUE)
        /\ (last.prev # <<>> /\ LastNew.percentage < last.prev[1].percentage)
              => Stored(Board, last.userID) = last.prev
    /\ (last.op = "AddEntry" /\ last.failed) => last.ret = FALSE

\* C4 witness: a stored 70%/7 (7 of 10) was replaced by 80%/4 (4 of 5).
C4_Witness ==
    /\ store = "memory"
    /\ LastFound
    /\ last.prev[1].percentage = 70 /\ last.prev[1].score = 7
    /\ last.score = 4 /\ last.total = 5
    /\ last.ret = TRUE
    /\ Stored(entries, last.userID) = <<LastNew>>
    /\ LastNew.percentage = 80

(***************************************************************************)
(* Claims about overlapping AddEntry calls (SpecConc).                     *)
(***************************************************************************)
\* C2: on the Gist store a successful AddEntry replaces the whole document by
\* the merge of its submission into the copy it fetched, whatever the document
\* holds by then; what other callers wrote since the fetch is dropped.
C2_WriteReplacesWithStaleMerge ==
    [][\A p \in Procs :
          (pc[p] = "loaded" /\ pc'[p] = "idle" /\ last'.ret = TRUE)
              => doc' = Merge(local[p], call[p][1].userID, call[p][1].score,
                              call[p][1].total)]_vars

\* C2 witness: fetch, fetch, write, write for two different users; both calls
\* returned true, and the first writer's user has no entry in the document.
C2_Witness ==
    /\ store = "gist"
    /\ AllIdle
    /\ last.op = "AddEntry" /\ last.ret = TRUE
    /\ \E u \in Users :
          /\ u # last.userID
          /\ best[u] # <<>>
          /\ \A i \in 1..Len(doc) :
                doc[i].userID = u => KeyBetter(best[u][1], Key(doc[i]))
          /\ Stored(doc, u) = <<>>
          /\ Stored(doc, last.userID) # <<>>

\* C5: in every reachable state the collection of the store in use holds at
\* most one entry per userID.
C5_OneEntryPerUser ==
    \A i, j \in 1..Len(Board) : Board[i].userID = Board[j].userID => i = j

\* C5 witness: a user submitted 3 of 10 and then 7 of 10; the collection holds
\* exactly one entry of that user, with score 7 and percentage 70.
C5_Witness ==
    /\ LastFound
    /\ last.prev[1].score = 3 /\ last.prev[1].total = 10
    /\ last.score = 7 /\ last.total = 10
    /\ Cardinality({i \in 1..Len(Board) : Board[i].userID = last.userID}) = 1
    /\ Stored(Board, last.userID)[1].score = 7
    /\ Stored(Board, last.userID)[1].percentage = 70

(***************************************************************************)
(* Claims about the quiz sessions (Spec).                                  *)
(***************************************************************************)
\* a and b hold the same elements, each as often.
IsPermutation(a, b) ==
    /\ Len(a) = Len(b)
    /\ \A i \in 1..Len(b) :
          Cardinality({k \in 1..Len(a) : a[k] = b[i]})
              = Cardinality({k \in 1..Len(b) : b[k] = b[i]})

\* C6: a session that has processed k answers has CurrentQuestion = k and
\* Score <= k; so 0 <= CurrentQuestion <= len(Questions) and Score <=
\* len(Questions).  The answer that is the len(Questions)-th one removes the
\* session and submits a score that is at most the total.
C6_IndexCountsAnswers ==
    /\ \A c \in DOMAIN quizSessions :
          LET session == quizSessions[c]
          IN  /\ session.CurrentQuestion = answered[c]
              /\ session.Score <= answered[c]
              /\ 0 <= session.CurrentQuestion
              /\ session.CurrentQuestion <= Len(session.Questions)
              /\ 0 <= session.Score
              /\ session.Score <= Len(session.Questions)
    /\ (ev.op = "answer" /\ last.op = "AddEntry") =>
          /\ ev.before[1].CurrentQuestion + 1 = last.total
          /\ last.score <= last.total

\* C6 witness: a session that has processed one answer, a wrong one.
C6_Witness ==
    /\ ev.op = "answer" /\ ev.had
    /\ ev.chatID \in DOMAIN quizSessions
    /\ answered[ev.chatID] = 1
    /\ quizSessions[ev.chatID].CurrentQuestion = 1
    /\ quizSessions[ev.chatID].Score = 0

\* C7: startQuiz installs, under the chat's identity, a session with
\* CurrentQuestion = 0 and Score = 0 whose Questions are a permutation of the
\* catalogue; it replaces the prior session of that identity, leaves the other
\* sessions and the leaderboard alone and submits nothing; every session is
\* stored under the identity it carries, so there is one per identity.
C7_StartInstallsFresh ==
    /\ [](\A c \in DOMAIN quizSessions : quizSessions[c].UserID = c)
    /\ [][ev'.op = "start" =>
            LET c == ev'.chatID
            IN  /\ DOMAIN quizSessions' = DOMAIN quizSessions \cup {c}
                /\ quizSessions'[c].UserID = c
                /\ quizSessions'[c].CurrentQuestion = 0
                /\ quizSessions'[c].Score = 0
                /\ IsPermutation(quizSessions'[c].Questions, quizQuestions)
                /\ \A d \in DOMAIN quizSessions \ {c} :
                      quizSessions'[d] = quizSessions[d]
                /\ entries' = entries /\ doc' = doc
                /\ last' = NoOp]_vars

\* C7 witness: a restart replaced a session that had one correct answer by a
\* fresh one in another question order, and the leaderboard is still empty.
C7_Witness ==
    /\ ev.op = "start" /\ ev.had
    /\ ev.before[1].CurrentQuestion = 1 /\ ev.before[1].Score = 1
    /\ quizSessions[ev.chatID].CurrentQuestion = 0
    /\ quizSessions[ev.chatID].Score = 0
    /\ quizSessions[ev.chatID].Questions # quizQuestions
    /\ last = NoOp /\ Board = <<>>

\* C8: between updates every session in the map has CurrentQuestion <
\* len(Questions); an answer that leaves the session in the map submits
\* nothing; the answer that completes the session removes it and makes one
\* AddEntry call with the final score and total = len(Questions), and an entry
\* it stores has percentage = floor(score * 100 / total).
C8_LastAnswerFinishes ==
    /\ \A c \in DOMAIN quizSessions :
          quizSessions[c].CurrentQuestion < Len(quizSessions[c].Questions)
    /\ (ev.op = "answer" /\ ev.chatID \in DOMAIN quizSessions) => last = NoOp
    /\ (ev.op = "answer" /\ ev.had /\ ev.chatID \notin DOMAIN quizSessions) =>
          /\ ev.before[1].CurrentQuestion + 1 = Len(quizQuestions)
          /\ last.op = "AddEntry"
          /\ last.total = Len(quizQuestions)
          /\ last.score \in {ev.before[1].Score, ev.before[1].Score + 1}
          /\ (~last.failed /\ last.prev = <<>>) =>
                Stored(Board, last.userID) =
                    <<[userID |-> last.userID, score |-> last.score,
                       total |-> last.total,
                       percentage |-> (last.score * 100) \div last.total]>>

\* C8 witness: the second of two answers finished a session with one point:
\* the session is gone and the entry 1 of 2, 50%, is on the leaderboard.
C8_Witness ==
    /\ ev.op = "answer" /\ ev.had
    /\ ev.chatID \notin DOMAIN quizSessions
    /\ ev.before[1].CurrentQuestion = 1 /\ ev.before[1].Score = 0
    /\ last.op = "AddEntry" /\ last.score = 1 /\ last.total = 2
    /\ Stored(Board, last.userID) # <<>>
    /\ Stored(Board, last.userID)[1].percentage = 50

\* C9: the exit button on a chat with a session removes that session, leaves
\* the other sessions alone and leaves the leaderboard unchanged: no AddEntry
\* call is made.
C9_ExitLeavesLeaderboard ==
    [][(ev'.op = "exit" /\ ev'.had) =>
          /\ quizSessions' = Delete(quizSessions, ev'.chatID)
          /\ entries' = entries /\ doc' = doc /\ best' = best
          /\ last' = NoOp]_vars

\* C9 witness: a session with one point was exited; it is gone and the
\* leaderboard is empty.
C9_Witness ==
    /\ ev.op = "exit" /\ ev.had
    /\ ev.before[1].Score = 1
    /\ ev.chatID \notin DOMAIN quizSessions
    /\ last = NoOp /\ Board = <<>>

\* C10: an answer or an exit for a chat that has no session changes neither
\* the session map nor the leaderboard and does not crash the process.
C10_NoSessionNoOp ==
    [][(ev'.op \in {"answer", "exit"} /\ ~ev'.had) =>
          /\ quizSessions' = quizSessions
          /\ entries' = entries /\ doc' = doc
          /\ crashed' = FALSE
          /\ last' = NoOp]_vars

\* C10 witness: an answer arrived for a chat without a session while another
\* chat has one and the leaderboard holds an entry; nothing crashed.
C10_Witness ==
    /\ ev.op = "answer" /\ ~ev.had
    /\ ~crashed
    /\ DOMAIN quizSessions # {}
    /\ Board # <<>>

(***************************************************************************)
(* Claims about GetTop and GetUserPosition (SpecQuery).                    *)
(***************************************************************************)
Min(a, b) == IF a < b THEN a ELSE b
Max(a, b) == IF a > b THEN a ELSE b

\* top holds entries of es, each position of es at most once, in descending
\* order of (percentage, score), and no entry of es left out is better than
\* one that is in: top is the head of es in a descending order.
IsLeading(top, es) ==
    \E f \in [1..Len(top) -> 1..Len(es)] :
        /\ \A i, j \in 1..Len(top) : f[i] = f[j] => i = j
        /\ \A i \in 1..Len(top) : top[i] = es[f[i]]
        /\ \A i, j \in 1..Len(top) :
              i < j => ~KeyBetter(Key(top[j]), Key(top[i]))
        /\ \A k \in 1..Len(es) :
              (\A i \in 1..Len(top) : f[i] # k) =>
                  \A i \in 1..Len(top) : ~KeyBetter(Key(es[k]), Key(top[i]))

\* C13 (as claimed): for every limit, negative ones and zero included, GetTop
\* returns, without a failure, min(max(limit, 0), size) entries, the leading
\* ones of the collection in descending order of (percentage, score), and it
\* leaves the collection as it was.
C13_GetTopClampsEveryLimit ==
    /\ [](res.op = "GetTop" =>
            /\ ~crashed
            /\ Len(res.top) = Min(Max(res.arg, 0), Len(Board))
            /\ IsLeading(res.top, Board))
    /\ [][res'.op = "GetTop" => (entries' = entries /\ doc' = doc)]_vars

\* The entries of es that are better than e, and those that are not worse
\* (e among them), in the ordering of the specification.
NumBetter(es, e) ==
    Cardinality({i \in 1..Len(es) : KeyBetter(Key(es[i]), Key(e))})
NumNotWorse(es, e) ==
    Cardinality({i \in 1..Len(es) : ~KeyBetter(Key(e), Key(es[i]))})

\* C14 (as claimed, for the calls none of whose fetches failed): with no
\* writer running, GetUserPosition returns a rank iff the user has an entry:
\* the entry and its 1-based position in the whole collection in descending
\* order of (percentage, score), whatever the size of the collection, and -1
\* with no entry for a user that has none.
C14_RankIffPresent ==
    (res.op = "GetUserPosition" /\ ~res.failed) =>
        LET stored == Stored(Board, res.arg)
        IN  /\ (res.position # -1) <=> (stored # <<>>)
            /\ res.entry = stored
            /\ stored # <<>> =>
                  /\ NumBetter(Board, stored[1]) < res.position
                  /\ res.position <= NumNotWorse(Board, stored[1])

\* C15: on the Gist store a call of which a fetch or the write failed does
\* not crash the process and ends with the safe default.  AddEntry returns
\* false, the document is as it was and the call is over: after a failed
\* fetch no write follows, after a failed write no second attempt.  GetTop
\* returns no entries; GetUserPosition returns -1 and no entry, also for a
\* user that has one.  None of them changes the document.
C15_FailureYieldsSafeDefault ==
    [][/\ (last'.op = "AddEntry" /\ last'.failed) =>
            /\ last'.ret = FALSE
            /\ doc' = doc
            /\ pc'[last'.proc] = "idle"
            /\ crashed' = FALSE
       /\ res'.failed =>
            /\ doc' = doc
            /\ crashed' = FALSE
            /\ res'.top = <<>>
            /\ res'.op = "GetUserPosition" =>
                  (res'.position = -1 /\ res'.entry = <<>>)]_vars

\* C15 witness: the write of a strictly better submission (7 of 10 over 1 of
\* 5) failed; the call returned false and the document holds the old entry.
C15_Witness ==
    /\ store = "gist"
    /\ last.op = "AddEntry" /\ last.failed /\ last.ret = FALSE
    /\ last.score = 7 /\ last.total = 10
    /\ last.prev # <<>> /\ last.prev[1].score = 1 /\ last.prev[1].total = 5
    /\ Stored(doc, last.userID) = last.prev
    /\ AllIdle

(***************************************************************************)
(* Claims about concurrent callers of the memory store (SpecMem).          *)
(***************************************************************************)
\* C18: whatever the interleaving of concurrent AddEntry calls on the memory
\* store, for the same user or for different ones, no submission is lost:
\* whenever every call that took the lock has returned, the collection holds
\* exactly one entry for each user a call was made for, the best one
\* submitted for it, and none for any other user.
C18_ConcurrentAddEntryAtomic ==
    (\A p \in Procs : pc[p] # "locked") =>
        \A u \in Users :
            /\ Cardinality({i \in 1..Len(entries) : entries[i].userID = u})
                  = (IF best[u] = <<>> THEN 0 ELSE 1)
            /\ best[u] # <<>> => Key(Stored(entries, u)[1]) = best[u][1]

\* C18 witness: all calls have returned; the one that returned last replaced
\* 3 of 10 by 7 of 10 for its user, and the other user has its entry too.
C18_Witness ==
    /\ store = "memory"
    /\ AllIdle
    /\ last.op = "AddEntry" /\ last.prev # <<>>
    /\ last.prev[1].score = 3 /\ last.score = 7
    /\ Len(entries) = 2
    /\ Stored(entries, last.userID) = <<LastNew>>
    /\ \A u \in Users : best[u] # <<>>

\* C19 (as claimed): a GetUserPosition call on the memory store that runs
\* while AddEntry calls for other users run does not return -1 for a user
\* that has an entry from the start of the call to its end.
C19_PresentUserIsRanked ==
    [][\A p \in Procs :
          (pc[p] = "sized" /\ pc'[p] = "idle" /\ call[p][1].present)
              => (res'.position # -1 /\ res'.entry # <<>>)]_vars

(***************************************************************************)
(* Claims about ShuffleQuestions (SpecShuffle).                            *)
(***************************************************************************)
\* C17: whatever the size of the catalogue, 0 included, and whatever the
\* random indices, the sequence startQuiz gets from ShuffleQuestions has the
\* length of the catalogue and holds the same questions, each as often; the
\* catalogue is as it was after the call, and so are the question sequences
\* of the sessions of the other chats.
C17_ShuffleIsPermutationOfCopy ==
    [][ev'.op = "start" =>
          LET shuffled == quizSessions'[ev'.chatID].Questions
          IN  /\ Len(shuffled) = Len(quizQuestions)
              /\ IsPermutation(shuffled, quizQuestions)
              /\ quizQuestions' = quizQuestions
              /\ \A d \in DOMAIN quizSessions \ {ev'.chatID} :
                    /\ d \in DOMAIN quizSessions'
                    /\ quizSessions'[d].Questions = quizSessions[d].Questions]_vars

\* C17 witness: on a catalogue of 3 questions a session was started whose
\* questions run 3, 1, 2, while the session of another chat keeps the order
\* 2, 3, 1 and the catalogue the order 1, 2, 3.
C17_Witness ==
    /\ ev.op = "start"
    /\ quizQuestions = CatalogueOf(3)
    /\ \E d \in DOMAIN quizSessions \ {ev.chatID} :
          /\ quizSessions[d].Questions
                = <<CatalogueOf(3)[2], CatalogueOf(3)[3], CatalogueOf(3)[1]>>
          /\ quizSessions[ev.chatID].Questions
                = <<CatalogueOf(3)[3], CatalogueOf(3)[1], CatalogueOf(3)[2]>>

(***************************************************************************)
(* Claims about a whole session (SpecDialog).                              *)
(***************************************************************************)
\* The step is an answer that finished a session every answer of which was
\* the button of the correct option of the question shown, and the
\* leaderboard was empty when it finished.
PerfectFinish ==
    /\ ev'.op = "answer" /\ ev'.had
    /\ ev'.chatID \notin DOMAIN quizSessions'
    /\ \A k \in 1..Len(log'[ev'.chatID]) : log'[ev'.chatID][k].button
    /\ Board = <<>>

\* What finishQuiz reports after such a session: the result n of n, 100%,
\* and the new-record line with place 1.
PerfectReport ==
    /\ last'.op = "AddEntry"
    /\ last'.score = Len(quizQuestions)
    /\ last'.total = Len(quizQuestions)
    /\ Percentage(last'.score, last'.total) = 100
    /\ last'.ret = TRUE
    /\ res'.op = "GetUserPosition" /\ res'.arg = last'.userID
    /\ res'.position = 1
    /\ Board' = <<NewEntry(last'.userID, Len(quizQuestions), Len(quizQuestions))>>

\* C16 (as claimed): on an empty leaderboard a session answered correctly at
\* every step finishes with score = total = n, 100%, and reports a new best
\* at rank 1, in every shuffle order and on either store.
C16_Original == [][PerfectFinish => PerfectReport]_vars

\* C16 (amended): the same, unless a fetch or the write of the Gist store
\* failed while the session was finished; then the result n of n, 100%, is
\* still computed but no new best is reported.
C16_PerfectSessionRanksFirst ==
    [][PerfectFinish =>
          /\ last'.op = "AddEntry"
          /\ last'.score = Len(quizQuestions)
          /\ last'.total = Len(quizQuestions)
          /\ Percentage(last'.score, last'.total) = 100
          /\ (~last'.failed /\ ~res'.failed) => PerfectReport
          /\ (last'.failed \/ res'.failed) =>
                (store = "gist" /\ (last'.ret = FALSE \/ res'.position = -1))]_vars

\* C16 witness: in the shuffle order that shows question 2 first, the two
\* right buttons were pressed; the second answer finished the session with
\* 2 of 2 and the user is first on a leaderboard that was empty.
C16_Witness ==
    /\ ev.op = "answer" /\ ev.had
    /\ ev.chatID \notin DOMAIN quizSessions
    /\ log[ev.chatID] = <<[q |-> 0, point |-> TRUE, right |-> TRUE, button |-> TRUE],
                          [q |-> 1, point |-> TRUE, right |-> TRUE, button |-> TRUE]>>
    /\ data = <<"1", "1">>
    /\ last.op = "AddEntry" /\ last.score = 2 /\ last.total = 2
    /\ last.prev = <<>> /\ last.ret = TRUE
    /\ res.op = "GetUserPosition" /\ res.position = 1
    /\ Len(Board) = 1 /\ Board[1].percentage = 100

(***************************************************************************)
(* Claims about the callback data of an answer (SpecDialog).               *)
(***************************************************************************)
\* C11 (as claimed): an answer on an active session whose questionIndex is
\* negative or >= len(Questions) does not crash the process and is an invalid
\* answer: the score of the session is not changed.
C11_OutOfRangeIsInvalidAnswer ==
    [][(/\ ev'.op = "answer" /\ ev'.had
        /\ ~Malformed(data')
        /\ \/ Atoi(data'[1]) < 0
           \/ Atoi(data'[1]) >= Len(quizSessions[ev'.chatID].Questions))
          => /\ crashed' = FALSE
             /\ ev'.chatID \in DOMAIN quizSessions' =>
                    quizSessions'[ev'.chatID].Score
                        = quizSessions[ev'.chatID].Score
             /\ last'.op = "AddEntry" =>
                    last'.score = quizSessions[ev'.chatID].Score]_vars

\* C12 (as claimed): an answer whose question-index or option-index field is
\* missing or is not a number is a no-op: no session changes, none is
\* finished, nothing is submitted and the process does not crash.
C12_MalformedIsNoOp ==
    [][(ev'.op = "answer" /\ Malformed(data'))
          => /\ quizSessions' = quizSessions
             /\ crashed' = FALSE
             /\ last' = NoOp]_vars

(***************************************************************************)
(* Claims about the points of a session (SpecDialog).                      *)
(***************************************************************************)
\* The question positions for which the latest session of the chat was given
\* a point.
PositionsScored(chatID) ==
    {log[chatID][k].q : k \in {j \in 1..Len(log[chatID]) : log[chatID][j].point}}

\* C20 (as claimed): whatever answers arrive, the score of a session, also
\* the one it is finished with, is at most the number of distinct question
\* positions that were answered correctly, and an answer gets a point iff it
\* names the correct option of the question at CurrentQuestion.
C20_OnePointPerPosition ==
    /\ \A c \in DOMAIN quizSessions :
          quizSessions[c].Score <= Cardinality(PositionsScored(c))
    /\ (ev.op = "answer" /\ last.op = "AddEntry") =>
          last.score <= Cardinality(PositionsScored(ev.chatID))
    /\ \A c \in Chats : \A k \in 1..Len(log[c]) :
          log[c][k].point <=> log[c][k].right

(***************************************************************************)
(* Claims about the identity a result is recorded under (Spec).            *)
(***************************************************************************)
\* C21 (as claimed): when the last answer completes a session and its result
\* is handed to AddEntry, the userID handed over is the key the session was
\* stored under in quizSessions.
C21_ResultCreditedToSessionOwner ==
    (ev.op = "answer" /\ last.op = "AddEntry") => last.userID = ev.chatID

(***************************************************************************)
(* Claims about the orderings of the shuffle (SpecShuffle).                *)
(***************************************************************************)
\* The orderings of a sequence.
Orderings(q) == {[i \in 1..Len(q) |-> q[f[i]]] : f \in Permutations(1..Len(q))}

\* C22: over the choice sequences of the loop for the catalogue, the shuffle
\* produces every ordering of the catalogue, and two different choice
\* sequences produce different orderings; the questions of a session are one
\* of these orderings.
C22_ShuffleChoicesAreOrderings ==
    LET choices == ShuffleChoices(Len(quizQuestions))
    IN  /\ {ShuffleQuestions(quizQuestions, js) : js \in choices}
               = Orderings(quizQuestions)
        /\ \A js1, js2 \in choices :
               ShuffleQuestions(quizQuestions, js1)
                   = ShuffleQuestions(quizQuestions, js2) => js1 = js2
        /\ \A c \in DOMAIN quizSessions :
               quizSessions[c].Questions \in Orderings(quizQuestions)

\* C22 witness: a session was started on a catalogue of MaxCatalogue
\* questions and got them in reverse order.
C22_Witness ==
    /\ Len(quizQuestions) = MaxCatalogue
    /\ \E c \in DOMAIN quizSessions :
          quizSessions[c].Questions
              = [i \in 1..MaxCatalogue |-> quizQuestions[MaxCatalogue + 1 - i]]

====
